---- MODULE Spec2Model ----
(***************************************************************************)
(* The telemetry session of the CanSat ground-control dashboards: the      *)
(* React components Dashboard01, DashBoard02, DashBoard03 (HTTP polling)   *)
(* and DashBoard04 (Bluetooth notifications).  One component is mounted    *)
(* per behaviour (variant); its React state, its ref, the browser's        *)
(* interval timers, the requests in flight and the listeners attached to   *)
(* the BLE characteristic are the state.                                   *)
(*                                                                         *)
(* React: a state setter called on a mounted component re-renders it and   *)
(* runs the effects whose dependencies changed before the next event is    *)
(* handled; a setter called after unmount does nothing.  An action below   *)
(* is one task of the event loop: a click handler up to its first await,   *)
(* the continuation of an await, a timer callback up to its await, the     *)
(* dispatch of one notification event.                                     *)
(*                                                                         *)
(* JS values are integers here: a number the device sends is itself,       *)
(* undefined is Undefined, and the string toISOString() returns for the    *)
(* clock reading t is toISOString(t).                                      *)
(***************************************************************************)
EXTENDS Integers, Sequences, FiniteSets, TLC

\* Bounds of the model.
MaxConnects == 2
MaxInFlight == 1
MaxLog == 2
MaxTime == 2

Variants == {"Dashboard01", "DashBoard02", "DashBoard03", "DashBoard04"}
HttpVariants == {"Dashboard01", "DashBoard02", "DashBoard03"}
\* The variants whose button toggles between connect and disconnect.
ToggleVariants == {"DashBoard02", "DashBoard03"}
\* The variants with a logging flag (isLogging / loggingRef).
LoggingVariants == {"DashBoard03", "DashBoard04"}
\* The variants that keep a log (logData).
LogVariants == {"DashBoard02", "DashBoard03", "DashBoard04"}

VARIABLES variant, mounted, connected, sensorData, logData, isLogging,
          loggingRef, intervalId, timers, nextId, connectReqs, nConnects,
          dataReqs, listeners, last

vars == <<variant, mounted, connected, sensorData, logData, isLogging,
          loggingRef, intervalId, timers, nextId, connectReqs, nConnects,
          dataReqs, listeners, last>>

\* JS undefined.
Undefined == -1
\* The code of the first ISO string: above every number the device sends.
IsoBase == 1000
toISOString(t) == IsoBase + t

\* useState({}) and setSensorData({}): the object with no fields.
EmptySample == [f \in {} |-> 0]

\* The bodies a /data response, or a decoded notification, can carry.
Msg1 == ("altitude" :> 120 @@ "temperature" :> 25 @@ "satellites" :> 0)
Msg2 == ("altitude" :> 121 @@ "time" :> 7)
RawMessages == {Msg1, Msg2}
Times == 1..MaxTime

\* { ...res.data, esp32Time: res.data.time, dashboardTime: new Date().toISOString() }
HttpSample(m, t) ==
  [f \in DOMAIN m \cup {"esp32Time", "dashboardTime"} |->
     IF f = "esp32Time"
       THEN (IF "time" \in DOMAIN m THEN m["time"] ELSE Undefined)
       ELSE IF f = "dashboardTime" THEN toISOString(t) ELSE m[f]]

\* { ...parsed, esp32Time: new Date().toISOString(), dashboardTime: new Date().toISOString() }
BleSample(m, t1, t2) ==
  [f \in DOMAIN m \cup {"esp32Time", "dashboardTime"} |->
     IF f = "esp32Time" THEN toISOString(t1)
       ELSE IF f = "dashboardTime" THEN toISOString(t2) ELSE m[f]]

\* A JSON.parse that accepts every text.
JSONparseNeverThrows(s) == FALSE

\* The texts a notification can carry, and JSON.parse on them.
Text1 == "{\"altitude\":120,\"temperature\":25,\"satellites\":0}"
Text2 == "{\"altitude\":121,\"time\":7}"
TextBad == "altitude=120"
BleTexts == {Text1, Text2, TextBad}
JSONparseThrows(s) == s \notin {Text1, Text2}
JSONparse(s) == IF s = Text1 THEN Msg1 ELSE Msg2

\* The state an operation found, kept for the properties that relate the
\* state after an operation to the state before it.
Pre ==
  [mounted |-> mounted, connected |-> connected, sensorData |-> sensorData,
   logData |-> logData, isLogging |-> isLogging, loggingRef |-> loggingRef,
   intervalId |-> intervalId, timers |-> timers, connectReqs |-> connectReqs,
   dataReqs |-> dataReqs, listeners |-> listeners]

\* The last operation: its name, how it ended, the message and the clock
\* readings it got, whether it alerted, the notification text it decoded
\* (text) and the CSV it handed to the browser (file, <<>> for none).
Op(name, outcome, msg, t1, t2, alert) ==
  [op |-> name, outcome |-> outcome, msg |-> msg, t1 |-> t1, t2 |-> t2,
   alert |-> alert, text |-> "", file |-> <<>>, pre |-> Pre]

Init ==
  /\ variant \in Variants
  /\ mounted = TRUE
  /\ connected = FALSE
  /\ sensorData = EmptySample
  /\ logData = <<>>
  /\ isLogging = FALSE
  /\ loggingRef = FALSE
  /\ intervalId = 0
  /\ timers = {}
  /\ nextId = 1
  /\ connectReqs = 0
  /\ nConnects = 0
  /\ dataReqs = 0
  /\ listeners = 0
  /\ last = Op("mount", "", EmptySample, 0, 0, FALSE)

\* A state setter: nothing once the component is unmounted.
setState(old, new) == IF mounted THEN new ELSE old

clearInterval(ts, id) == ts \ {id}

\* A component whose effect returns no cleanup.
effectCleanupNone(ts, id) == ts

\* useEffect(() => () => clearInterval(intervalId), [intervalId]): the cleanup
\* of the render that held `id`, run when intervalId changes and at unmount.
effectCleanup(ts, id) == clearInterval(ts, id)

\* startPolling: setInterval, setIntervalId(id), and the re-render's effect.
startPolling ==
  /\ nextId' = nextId + 1
  /\ intervalId' = setState(intervalId, nextId)
  /\ timers' = IF mounted
                 THEN effectCleanup(timers \cup {nextId}, intervalId)
                 ELSE timers \cup {nextId}

\* A disconnect that leaves the last sample on display.
disconnectBranchKeepsSample ==
  /\ timers' = clearInterval(timers, intervalId)
  /\ connected' = FALSE
  /\ UNCHANGED <<sensorData, intervalId, nextId, connectReqs, nConnects>>
  /\ last' = Op("disconnect", "", EmptySample, 0, 0, FALSE)

\* toggleConnection, connected: the disconnect branch.
disconnectBranch ==
  /\ timers' = clearInterval(timers, intervalId)
  /\ connected' = FALSE
  /\ sensorData' = EmptySample
  /\ UNCHANGED <<intervalId, nextId, connectReqs, nConnects>>
  /\ last' = Op("disconnect", "", EmptySample, 0, 0, FALSE)

\* The /connect request leaves: the handler is suspended at its await.
connectBranch ==
  /\ nConnects < MaxConnects
  /\ connectReqs' = connectReqs + 1
  /\ nConnects' = nConnects + 1
  /\ UNCHANGED <<timers, connected, sensorData, intervalId, nextId>>
  /\ last' = Op("connect", "", EmptySample, 0, 0, FALSE)

\* A toggle whose disconnect also stops logging.
toggleConnectionStopsLogging ==
  /\ variant \in ToggleVariants
  /\ mounted
  /\ IF connected
       THEN disconnectBranch /\ isLogging' = FALSE /\ loggingRef' = FALSE
       ELSE connectBranch /\ UNCHANGED <<isLogging, loggingRef>>
  /\ UNCHANGED <<variant, mounted, logData, dataReqs, listeners>>

\* A toggle whose disconnect also discards the log.
toggleConnectionDiscardsLog ==
  /\ variant \in ToggleVariants
  /\ mounted
  /\ IF connected
       THEN disconnectBranch /\ logData' = <<>>
       ELSE connectBranch /\ UNCHANGED logData
  /\ UNCHANGED <<variant, mounted, isLogging, loggingRef, dataReqs, listeners>>

\* A click on the connect/disconnect button of DashBoard02 and DashBoard03.
toggleConnection ==
  /\ variant \in ToggleVariants
  /\ mounted
  /\ IF connected THEN disconnectBranch ELSE connectBranch
  /\ UNCHANGED <<variant, mounted, logData, isLogging, loggingRef, dataReqs,
                 listeners>>

\* A click on Dashboard01's Connect button: no test of `connected`.
connectToESP32 ==
  /\ variant = "Dashboard01"
  /\ mounted
  /\ connectBranch
  /\ UNCHANGED <<variant, mounted, logData, isLogging, loggingRef, dataReqs,
                 listeners>>

ConnectOutcomes == {"true", "false", "error"}

\* Whether the continuation of the /connect await alerts.
connectAlert(o) ==
  IF variant = "Dashboard01" THEN o = "error" ELSE o \in {"false", "error"}

\* The /connect await ends: res.data.connected true or falsy, or a throw.
connectResponse(o) ==
  /\ variant \in HttpVariants
  /\ connectReqs > 0
  /\ connectReqs' = connectReqs - 1
  /\ IF o = "true"
       THEN /\ connected' = setState(connected, TRUE)
            /\ startPolling
       ELSE /\ connected' = IF variant = "Dashboard01" /\ o = "error"
                              THEN setState(connected, FALSE)
                              ELSE connected
            /\ UNCHANGED <<intervalId, timers, nextId>>
  /\ last' = Op("connectResponse", o, EmptySample, 0, 0, connectAlert(o))
  /\ UNCHANGED <<variant, mounted, sensorData, logData, isLogging, loggingRef,
                 nConnects, dataReqs, listeners>>

\* The interval callback runs and its /data request leaves.
timerTick ==
  /\ timers # {}
  /\ dataReqs < MaxInFlight
  /\ dataReqs' = dataReqs + 1
  /\ last' = Op("tick", "", EmptySample, 0, 0, FALSE)
  /\ UNCHANGED <<variant, mounted, connected, sensorData, logData, isLogging,
                 loggingRef, intervalId, timers, nextId, connectReqs,
                 nConnects, listeners>>

\* An interval callback that appends without reading loggingRef.current.
pollAppendsAlways == variant \in LogVariants

\* An interval callback that never appends.
pollAppendsNever == FALSE

\* Whether the interval callback appends the sample it built.
pollAppends ==
  IF variant = "DashBoard02" THEN TRUE
  ELSE IF variant = "DashBoard03" THEN loggingRef ELSE FALSE

\* An interval callback that shows a sample only when it also logs it.
shownAfterPollIfLogged(m, t) ==
  IF pollAppends THEN setState(sensorData, HttpSample(m, t)) ELSE sensorData

\* setSensorData(timestampedData); Dashboard01: setData(res.data).
shownAfterPoll(m, t) ==
  setState(sensorData,
           IF variant = "Dashboard01" THEN m ELSE HttpSample(m, t))

\* The /data await ends with body m at clock reading t.
dataResponse(m, t) ==
  /\ variant \in HttpVariants
  /\ dataReqs > 0
  /\ dataReqs' = dataReqs - 1
  /\ pollAppends => Len(logData) < MaxLog
  /\ sensorData' = shownAfterPoll(m, t)
  /\ logData' = IF pollAppends
                  THEN setState(logData, Append(logData, HttpSample(m, t)))
                  ELSE logData
  /\ last' = Op("data", "ok", m, t, t, FALSE)
  /\ UNCHANGED <<variant, mounted, connected, isLogging, loggingRef,
                 intervalId, timers, nextId, connectReqs, nConnects,
                 listeners>>

\* A failed pull that gives the connection up.
dataErrorDisconnects ==
  /\ variant \in HttpVariants
  /\ dataReqs > 0
  /\ dataReqs' = dataReqs - 1
  /\ timers' = clearInterval(timers, intervalId)
  /\ connected' = setState(connected, FALSE)
  /\ last' = Op("data", "error", EmptySample, 0, 0, FALSE)
  /\ UNCHANGED <<variant, mounted, sensorData, logData, isLogging,
                 loggingRef, intervalId, nextId, connectReqs, nConnects,
                 listeners>>

\* The /data await throws: console.error only.
dataError ==
  /\ variant \in HttpVariants
  /\ dataReqs > 0
  /\ dataReqs' = dataReqs - 1
  /\ last' = Op("data", "error", EmptySample, 0, 0, FALSE)
  /\ UNCHANGED <<variant, mounted, connected, sensorData, logData, isLogging,
                 loggingRef, intervalId, timers, nextId, connectReqs,
                 nConnects, listeners>>

\* A click on DashBoard04's button, whatever its label ("Connect via
\* Bluetooth" or "Disconnect"): connectBluetooth runs up to its first await.
connectBluetooth ==
  /\ variant = "DashBoard04"
  /\ mounted
  /\ nConnects < MaxConnects
  /\ connectReqs' = connectReqs + 1
  /\ nConnects' = nConnects + 1
  /\ last' = Op("connectBluetooth", "", EmptySample, 0, 0, FALSE)
  /\ UNCHANGED <<variant, mounted, connected, sensorData, logData, isLogging,
                 loggingRef, intervalId, timers, nextId, dataReqs, listeners>>

\* How the awaits of connectBluetooth end: all resolve ("ok"), or the named
\* one rejects.
BleOutcomes == {"ok", "requestDevice", "gatt.connect", "getPrimaryService",
                "getCharacteristic", "startNotifications"}

\* The rest of connectBluetooth: addEventListener and setConnected(true), or
\* the catch block.
bluetoothResolved(o) ==
  /\ variant = "DashBoard04"
  /\ connectReqs > 0
  /\ connectReqs' = connectReqs - 1
  /\ listeners' = IF o = "ok" THEN listeners + 1 ELSE listeners
  /\ connected' = IF o = "ok" THEN setState(connected, TRUE) ELSE connected
  /\ last' = Op("bluetoothResolved", o, EmptySample, 0, 0, o # "ok")
  /\ UNCHANGED <<variant, mounted, sensorData, logData, isLogging, loggingRef,
                 intervalId, timers, nextId, nConnects, dataReqs>>

\* What n attached listeners append for one event: each builds its sample
\* and, with loggingRef.current set, appends it.
listenersAppend(log, s, n) == log \o [i \in 1..n |-> s]

\* One characteristicvaluechanged event with text `text` is dispatched to
\* every attached listener; t1 and t2 are the two clock readings.
characteristicvaluechanged(text, t1, t2) ==
  /\ variant = "DashBoard04"
  /\ listeners > 0
  /\ t1 <= t2
  /\ IF JSONparseThrows(text)
       THEN /\ UNCHANGED <<sensorData, logData>>
            /\ last' = [Op("notification", "error", EmptySample, t1, t2,
                            FALSE) EXCEPT !.text = text]
       ELSE /\ loggingRef => Len(logData) + listeners <= MaxLog
            /\ sensorData' = setState(sensorData,
                                      BleSample(JSONparse(text), t1, t2))
            /\ logData' = IF loggingRef
                            THEN setState(logData,
                                   listenersAppend(logData,
                                     BleSample(JSONparse(text), t1, t2),
                                     listeners))
                            ELSE logData
            /\ last' = [Op("notification", "ok", JSONparse(text), t1, t2,
                            FALSE) EXCEPT !.text = text]
  /\ UNCHANGED <<variant, mounted, connected, isLogging, loggingRef,
                 intervalId, timers, nextId, connectReqs, nConnects, dataReqs,
                 listeners>>

\* A start that also logs the sample on display.
handleStartLoggingAppends ==
  /\ variant \in LoggingVariants
  /\ mounted
  /\ isLogging' = TRUE
  /\ loggingRef' = TRUE
  /\ logData' = IF sensorData = EmptySample \/ Len(logData) >= MaxLog
                  THEN logData ELSE Append(logData, sensorData)
  /\ last' = Op("startLogging", "", EmptySample, 0, 0, FALSE)
  /\ UNCHANGED <<variant, mounted, connected, sensorData, intervalId, timers,
                 nextId, connectReqs, nConnects, dataReqs, listeners>>

handleStartLogging ==
  /\ variant \in LoggingVariants
  /\ mounted
  /\ isLogging' = TRUE
  /\ loggingRef' = TRUE
  /\ last' = Op("startLogging", "", EmptySample, 0, 0, FALSE)
  /\ UNCHANGED <<variant, mounted, connected, sensorData, logData,
                 intervalId, timers, nextId, connectReqs, nConnects, dataReqs,
                 listeners>>

\* A reset that keeps the log.
handleResetKeepsLog ==
  /\ variant \in LoggingVariants
  /\ mounted
  /\ sensorData' = EmptySample
  /\ isLogging' = FALSE
  /\ loggingRef' = FALSE
  /\ last' = Op("reset", "", EmptySample, 0, 0, FALSE)
  /\ UNCHANGED <<variant, mounted, connected, logData, intervalId, timers,
                 nextId, connectReqs, nConnects, dataReqs, listeners>>

\* A reset that also disconnects.
handleResetDisconnects ==
  /\ variant \in LoggingVariants
  /\ mounted
  /\ logData' = <<>>
  /\ sensorData' = EmptySample
  /\ isLogging' = FALSE
  /\ loggingRef' = FALSE
  /\ connected' = FALSE
  /\ timers' = clearInterval(timers, intervalId)
  /\ listeners' = 0
  /\ last' = Op("reset", "", EmptySample, 0, 0, FALSE)
  /\ UNCHANGED <<variant, mounted, intervalId, nextId, connectReqs,
                 nConnects, dataReqs>>

handleReset ==
  /\ variant \in LoggingVariants
  /\ mounted
  /\ logData' = <<>>
  /\ sensorData' = EmptySample
  /\ isLogging' = FALSE
  /\ loggingRef' = FALSE
  /\ last' = Op("reset", "", EmptySample, 0, 0, FALSE)
  /\ UNCHANGED <<variant, mounted, connected, intervalId, timers, nextId,
                 connectReqs, nConnects, dataReqs, listeners>>

(***************************************************************************)
(* exportToCSV.  A text is the sequence of its pieces: the cell strings    *)
(* that are not empty, "," and "\n"; concatenating an empty string adds    *)
(* nothing.                                                                *)
(***************************************************************************)
headers ==
  <<"altitude", "pressure", "temperature", "humidity", "battery", "compass",
    "latitude", "longitude", "satellites", "esp32Time", "dashboardTime">>

\* row[header]: undefined when the object has no such field.
field(row, h) == IF h \in DOMAIN row THEN row[h] ELSE Undefined

\* JS falsiness of the values here: undefined and the number 0.
falsy(v) == v = Undefined \/ v = 0

\* String(v): a number in decimal, an ISO string as it is (the clock
\* reading t is t ms after the epoch, t < 10), undefined as "undefined".
String(v) ==
  IF v = Undefined THEN "undefined"
  ELSE IF v >= IsoBase
         THEN "1970-01-01T00:00:00.00" \o ToString(v - IsoBase) \o "Z"
         ELSE ToString(v)

\* A cell written with String(row[header]), without || "".
csvCellNoDefault(row, h) == String(field(row, h))

\* row[header] || "", as join writes it.
csvCell(row, h) == IF falsy(field(row, h)) THEN "" ELSE String(field(row, h))

\* The pieces of one string.
pieces(str) == IF str = "" THEN <<>> ELSE <<str>>

\* Array.prototype.join on strings: the texts of the elements with sep
\* between them.
RECURSIVE join(_, _)
join(strs, sep) ==
  IF Len(strs) = 0 THEN <<>>
  ELSE IF Len(strs) = 1 THEN pieces(strs[1])
  ELSE pieces(strs[1]) \o <<sep>> \o join(Tail(strs), sep)

\* join on elements that are texts already (the rows).
RECURSIVE joinTexts(_, _)
joinTexts(texts, sep) ==
  IF Len(texts) = 0 THEN <<>>
  ELSE IF Len(texts) = 1 THEN texts[1]
  ELSE texts[1] \o <<sep>> \o joinTexts(Tail(texts), sep)

\* data.map((row) => headers.map((header) => row[header] || "").join(","))
csvRows(data) ==
  [i \in 1..Len(data) |->
     join([j \in 1..Len(headers) |-> csvCell(data[i], headers[j])], ",")]

\* A content without the header line.
csvContentNoHeader(data) == joinTexts(csvRows(data), "\n")

\* headers.join(",") + "\n" + csvRows.join("\n")
csvContent(data) ==
  join(headers, ",") \o <<"\n">> \o joinTexts(csvRows(data), "\n")

\* The text handed to the browser as the file; <<>>: the early return, no
\* file.
exportToCSV(data) == IF Len(data) = 0 THEN <<>> ELSE csvContent(data)

\* A download that leaves the empty log to exportToCSV's silent return.
handleLogDownloadSilent ==
  /\ variant \in LogVariants
  /\ mounted
  /\ last' = [Op("download", "", EmptySample, 0, 0, FALSE)
                EXCEPT !.file = exportToCSV(logData)]
  /\ UNCHANGED <<variant, mounted, connected, sensorData, logData, isLogging,
                 loggingRef, intervalId, timers, nextId, connectReqs,
                 nConnects, dataReqs, listeners>>

\* A click on the download button: alert("No data to save.") and return
\* when the log is empty, else exportToCSV(logData).
handleLogDownload ==
  /\ variant \in LogVariants
  /\ mounted
  /\ last' = [Op("download", "", EmptySample, 0, 0, Len(logData) = 0)
                EXCEPT !.file = IF Len(logData) = 0 THEN <<>>
                                ELSE exportToCSV(logData)]
  /\ UNCHANGED <<variant, mounted, connected, sensorData, logData, isLogging,
                 loggingRef, intervalId, timers, nextId, connectReqs,
                 nConnects, dataReqs, listeners>>

\* The component is unmounted: the effect's cleanup runs (HTTP variants).
unmount ==
  /\ mounted
  /\ mounted' = FALSE
  /\ timers' = IF variant \in HttpVariants
                 THEN effectCleanup(timers, intervalId) ELSE timers
  /\ last' = Op("unmount", "", EmptySample, 0, 0, FALSE)
  /\ UNCHANGED <<variant, connected, sensorData, logData, isLogging,
                 loggingRef, intervalId, nextId, connectReqs, nConnects,
                 dataReqs, listeners>>

Next ==
  \/ toggleConnection
  \/ connectToESP32
  \/ \E o \in ConnectOutcomes : connectResponse(o)
  \/ timerTick
  \/ \E m \in RawMessages, t \in Times : dataResponse(m, t)
  \/ dataError
  \/ connectBluetooth
  \/ \E o \in BleOutcomes : bluetoothResolved(o)
  \/ \E text \in BleTexts, t1 \in Times, t2 \in Times :
       characteristicvaluechanged(text, t1, t2)
  \/ handleStartLogging
  \/ handleReset
  \/ handleLogDownload
  \/ unmount

Spec == Init /\ [][Next]_vars

(***************************************************************************)
(* The session seen through the component's state.                         *)
(***************************************************************************)

\* The session's loggingActive before the last operation: a variant with no
\* logging flag has none to be true.
loggingActiveBefore == variant \in LoggingVariants /\ last.pre.loggingRef

\* The last operation was the receipt of a message that was read with
\* success: a /data response, or a notification whose text parsed.
Received ==
  /\ last.op \in {"data", "notification"}
  /\ last.outcome = "ok"

\* The Sample the component builds from the message received last.
ReceivedSample ==
  IF variant = "DashBoard04"
    THEN BleSample(last.msg, last.t1, last.t2)
    ELSE HttpSample(last.msg, last.t1)

LogGrew == Len(logData) > Len(last.pre.logData)

IsPrefix(s, t) ==
  /\ Len(s) <= Len(t)
  /\ \A i \in 1..Len(s) : s[i] = t[i]

(***************************************************************************)
(* C1: in every dashboard variant the log grows only while loggingActive   *)
(* is true: a step that lengthens the log is the receipt of a sample with  *)
(* loggingActive true at receipt.  DashBoard02 has no logging flag and     *)
(* appends every sample, so this fails there.                              *)
(***************************************************************************)
C1_LogGrowsOnlyWhileLogging ==
  (variant \in LogVariants /\ LogGrew) => (Received /\ loggingActiveBefore)

\* C1, amended: in the variants with a logging flag (DashBoard03 and
\* DashBoard04) a step that lengthens the log is the receipt of a sample
\* with loggingRef.current true at receipt; with it false the log keeps
\* its length.
C1_LogGrowsOnlyWhileLogging_Flagged ==
  (variant \in LoggingVariants /\ LogGrew) => (Received /\ last.pre.loggingRef)

C1_Witness ==
  /\ variant \in LoggingVariants
  /\ Received
  /\ last.pre.loggingRef
  /\ LogGrew

(***************************************************************************)
(* C2: a /data response that completes after disconnect() is ignored: with *)
(* the session out of Connected, the response changes neither latestSample *)
(* nor log.  The interval callback has no such guard.                      *)
(***************************************************************************)
C2_LateResponseIgnored ==
  (variant \in ToggleVariants /\ last.op = "data" /\ ~last.pre.connected)
    => (sensorData = last.pre.sensorData /\ logData = last.pre.logData)

C4_ResetClears ==
  last.op = "reset" =>
    /\ logData = <<>>
    /\ sensorData = EmptySample
    /\ ~isLogging
    /\ ~loggingRef

\* A reset of a connected, logging session with a non-empty log.
C4_Witness ==
  /\ last.op = "reset"
  /\ last.pre.connected
  /\ last.pre.loggingRef
  /\ Len(last.pre.logData) > 0
  /\ last.pre.sensorData # EmptySample
  /\ logData = <<>>

(***************************************************************************)
(* C5: reset() does not change connectionState: a Connected session stays  *)
(* Connected with its transport still delivering (timer, requests in       *)
(* flight and listeners as before), a Disconnected one stays Disconnected. *)
(***************************************************************************)
C5_ResetKeepsConnection ==
  last.op = "reset" =>
    /\ connected = last.pre.connected
    /\ timers = last.pre.timers
    /\ intervalId = last.pre.intervalId
    /\ dataReqs = last.pre.dataReqs
    /\ connectReqs = last.pre.connectReqs
    /\ listeners = last.pre.listeners

\* A reset of a connected session whose transport is delivering.
C5_Witness ==
  /\ last.op = "reset"
  /\ connected
  /\ (timers # {} \/ listeners > 0)

(***************************************************************************)
(* C6: logging is gated by sample receipt.  In the variants with a logging *)
(* flag, while the component is mounted: a message received with           *)
(* loggingRef.current false leaves the log as it was, and nothing but a    *)
(* receipt adds to the log later (starting to log adds nothing); a message *)
(* received with it true is in the log right after its receipt, after the  *)
(* entries that were there; and entries leave the log only by reset().     *)
(***************************************************************************)
C6_LoggingGatedByReceipt ==
  variant \in LoggingVariants =>
    /\ (Received /\ ~last.pre.loggingRef) => logData = last.pre.logData
    /\ (Received /\ last.pre.loggingRef /\ last.pre.mounted) =>
         /\ LogGrew
         /\ \A i \in (Len(last.pre.logData) + 1)..Len(logData) :
              logData[i] = ReceivedSample
    /\ ~Received => ~LogGrew
    /\ last.op # "reset" => IsPrefix(last.pre.logData, logData)

\* The scenario of the specification: a sample with altitude 120 was
\* received and shown before logging started, the log was empty, and the
\* sample with altitude 121 received after startLogging() is the log.
C6_Witness ==
  /\ variant = "DashBoard03"
  /\ Received
  /\ last.pre.loggingRef
  /\ last.pre.sensorData # EmptySample
  /\ last.pre.sensorData["altitude"] = 120
  /\ last.pre.logData = <<>>
  /\ Len(logData) = 1
  /\ logData[1]["altitude"] = 121

(***************************************************************************)
(* C7: latestSample is updated on every message received with success,     *)
(* whatever the logging state: right after the receipt (component          *)
(* mounted) it carries every field of the message with the message's       *)
(* value, the two time stamps, and nothing else.                           *)
(***************************************************************************)
C7_LatestSampleOnEveryMessage ==
  (variant \in LogVariants /\ Received /\ last.pre.mounted) =>
    /\ DOMAIN sensorData = DOMAIN last.msg \cup {"esp32Time", "dashboardTime"}
    /\ \A f \in DOMAIN last.msg : sensorData[f] = last.msg[f]
    /\ sensorData["dashboardTime"] = toISOString(last.t2)

\* A message received with logging off replaced the sample on display.
C7_Witness ==
  /\ variant \in LoggingVariants
  /\ Received
  /\ ~last.pre.loggingRef
  /\ last.pre.sensorData # EmptySample
  /\ sensorData # last.pre.sensorData
  /\ sensorData["altitude"] = last.msg["altitude"]

(***************************************************************************)
(* C8: startLogging() only sets loggingActive to true: log and             *)
(* latestSample are as before, so the sample held at the call is not       *)
(* appended.                                                               *)
(***************************************************************************)
C8_StartLoggingOnlySetsFlag ==
  last.op = "startLogging" =>
    /\ isLogging
    /\ loggingRef
    /\ logData = last.pre.logData
    /\ sensorData = last.pre.sensorData
    /\ connected = last.pre.connected

\* Logging started while a sample was on display and the log was empty.
C8_Witness ==
  /\ last.op = "startLogging"
  /\ ~last.pre.loggingRef
  /\ sensorData # EmptySample
  /\ logData = <<>>

(***************************************************************************)
(* C9: in every HTTP variant a connect succeeds only if the /connect body  *)
(* has connected true; when the request fails or the flag is falsy the     *)
(* session ends up Disconnected, no polling timer is started and a connect *)
(* error is shown.                                                         *)
(***************************************************************************)
C9_ConnectFailsWithError ==
  (variant \in HttpVariants /\ last.op = "connectResponse") =>
    /\ (connected /\ ~last.pre.connected) => last.outcome = "true"
    /\ last.outcome # "true" =>
         /\ ~connected
         /\ timers = last.pre.timers
         /\ last.alert

(***************************************************************************)
(* C10: in the BLE variant disconnect unsubscribes the notification        *)
(* listener: right after the button is pressed while it shows Disconnect   *)
(* no listener is attached to the characteristic, so that no notification *)
(* reaches the session.  The button runs connectBluetooth whatever its     *)
(* label, and the component never removes a listener.                      *)
(***************************************************************************)
C10_BleDisconnectUnsubscribes ==
  (variant = "DashBoard04" /\ last.op = "connectBluetooth"
     /\ last.pre.connected) => listeners = 0

(***************************************************************************)
(* C11: disconnect() tears down the transport, sets connectionState to     *)
(* Disconnected and clears latestSample: right after the disconnect of     *)
(* DashBoard02 or DashBoard03 no timer is active, connected is false and   *)
(* sensorData is {}.                                                       *)
(***************************************************************************)
C11_DisconnectClearsLatest ==
  last.op = "disconnect" =>
    /\ ~connected
    /\ sensorData = EmptySample
    /\ timers = {}

\* A disconnect of a session that was polling and showed a sample.
C11_Witness ==
  /\ last.op = "disconnect"
  /\ last.pre.connected
  /\ last.pre.timers # {}
  /\ last.pre.sensorData # EmptySample
  /\ sensorData = EmptySample

(***************************************************************************)
(* C13: loggingActive persists across a connect/disconnect cycle: the      *)
(* flag (isLogging and loggingRef.current, always equal) changes only by   *)
(* startLogging(), which sets it, and by reset(), which clears it.         *)
(***************************************************************************)
C13_LoggingPersists ==
  /\ isLogging = loggingRef
  /\ loggingRef # last.pre.loggingRef =>
       \/ last.op = "startLogging" /\ loggingRef
       \/ last.op = "reset" /\ ~loggingRef
  /\ last.op \in {"connect", "connectResponse", "disconnect",
                  "connectBluetooth", "bluetoothResolved"} =>
       loggingRef = last.pre.loggingRef

\* Logging was started, the session was disconnected, and it is still
\* logging.
C13_Witness ==
  /\ variant = "DashBoard03"
  /\ last.op = "disconnect"
  /\ last.pre.loggingRef
  /\ loggingRef
  /\ isLogging

(***************************************************************************)
(* C14: a failed /data pull is skipped and not escalated: latestSample,    *)
(* log, loggingActive and connectionState are as before, no /connect       *)
(* request is started, and the timer stays active, so that it can issue    *)
(* the next pull.                                                          *)
(***************************************************************************)
C14_FailedPullSkipped ==
  (last.op = "data" /\ last.outcome = "error") =>
    /\ sensorData = last.pre.sensorData
    /\ logData = last.pre.logData
    /\ loggingRef = last.pre.loggingRef
    /\ isLogging = last.pre.isLogging
    /\ connected = last.pre.connected
    /\ connectReqs = last.pre.connectReqs
    /\ timers = last.pre.timers
    /\ intervalId = last.pre.intervalId
    /\ timers # {} => ENABLED timerTick

\* A pull failed in a connected, polling session that showed a sample.
C14_Witness ==
  /\ last.op = "data"
  /\ last.outcome = "error"
  /\ connected
  /\ timers # {}
  /\ sensorData # EmptySample

(***************************************************************************)
(* C15: a BLE notification whose text is not valid JSON is dropped:        *)
(* latestSample is as before, no log entry is added (also while logging),  *)
(* connectionState is as before, and the listeners stay attached, so that  *)
(* later notifications are still processed.                                *)
(***************************************************************************)
C15_BadNotificationDropped ==
  (last.op = "notification" /\ last.text = TextBad) =>
    /\ sensorData = last.pre.sensorData
    /\ logData = last.pre.logData
    /\ connected = last.pre.connected
    /\ loggingRef = last.pre.loggingRef
    /\ listeners = last.pre.listeners
    /\ listeners > 0
    /\ Len(logData) + listeners <= MaxLog =>
         ENABLED characteristicvaluechanged(Text2, 1, 1)

\* A text that is no JSON arrived while logging, with a sample on display.
C15_Witness ==
  /\ last.op = "notification"
  /\ last.text = TextBad
  /\ loggingRef
  /\ connected
  /\ sensorData # EmptySample
  /\ Len(logData) = 1

(***************************************************************************)
(* Reading a CSV text back: its lines, the cells of a line.                *)
(***************************************************************************)
FirstIndex(t, sep) ==
  CHOOSE k \in 1..Len(t) : t[k] = sep /\ \A j \in 1..(k - 1) : t[j] # sep

RECURSIVE SplitOn(_, _)
SplitOn(t, sep) ==
  IF \A k \in 1..Len(t) : t[k] # sep THEN <<t>>
  ELSE <<SubSeq(t, 1, FirstIndex(t, sep) - 1)>>
         \o SplitOn(SubSeq(t, FirstIndex(t, sep) + 1, Len(t)), sep)

Lines(file) == SplitOn(file, "\n")
\* The cells of a line, each as its string.
Cells(line) ==
  LET parts == SplitOn(line, ",")
  IN [j \in 1..Len(parts) |-> IF parts[j] = <<>> THEN "" ELSE parts[j][1]]

Downloaded == last.op = "download" /\ Len(last.pre.logData) >= 1

(***************************************************************************)
(* C16: exporting a log of N >= 1 samples produces exactly N+1 lines: the  *)
(* header line, then one row per sample, the i-th row that of the i-th     *)
(* sample of the log (its altitude and its dashboardTime).                 *)
(***************************************************************************)
C16_ExportLines ==
  Downloaded =>
    LET L == Lines(last.file)
        N == Len(logData)
    IN /\ Len(L) = N + 1
       /\ Cells(L[1]) = headers
       /\ \A i \in 1..N :
            /\ Len(Cells(L[i + 1])) = Len(headers)
            /\ Cells(L[i + 1])[1] = ToString(logData[i]["altitude"])
            /\ Cells(L[i + 1])[11] = String(logData[i]["dashboardTime"])

\* A log of two samples that differ was exported.
C16_Witness ==
  /\ Downloaded
  /\ Len(logData) = 2
  /\ logData[1]["altitude"] # logData[2]["altitude"]
  /\ Len(Lines(last.file)) = 3

(***************************************************************************)
(* C17: in every exported row the cells follow the header order, and a     *)
(* sample that lacks a field yields an empty cell at that column, never    *)
(* the text "undefined" or "null".                                         *)
(***************************************************************************)
C17_ExportCells ==
  Downloaded =>
    \A i \in 1..Len(logData) :
      LET row == Cells(Lines(last.file)[i + 1])
      IN /\ Len(row) = Len(headers)
         /\ \A j \in 1..Len(headers) :
              /\ row[j] \notin {"undefined", "null"}
              /\ headers[j] \notin DOMAIN logData[i] => row[j] = ""
              /\ (headers[j] \in DOMAIN logData[i]
                    /\ ~falsy(logData[i][headers[j]])) =>
                   row[j] = String(logData[i][headers[j]])

\* An exported sample without temperature, and with esp32Time undefined.
C17_Witness ==
  /\ Downloaded
  /\ \E i \in 1..Len(logData) : "temperature" \notin DOMAIN logData[i]
  /\ \E i \in 1..Len(logData) : logData[i]["esp32Time"] = Undefined

(***************************************************************************)
(* C18: export of an empty log is a no-op with a notice: no file is        *)
(* produced, an alert is shown, and log, latestSample, loggingActive and   *)
(* connectionState are as before.                                          *)
(***************************************************************************)
C18_EmptyExportNotice ==
  (last.op = "download" /\ Len(last.pre.logData) = 0) =>
    /\ last.alert
    /\ last.file = <<>>
    /\ logData = last.pre.logData
    /\ sensorData = last.pre.sensorData
    /\ loggingRef = last.pre.loggingRef
    /\ isLogging = last.pre.isLogging
    /\ connected = last.pre.connected
    /\ timers = last.pre.timers

\* The download button was pressed in a connected session that showed a
\* sample and had logged nothing.
C18_Witness ==
  /\ last.op = "download"
  /\ logData = <<>>
  /\ connected
  /\ sensorData # EmptySample
  /\ last.alert

(***************************************************************************)
(* C12: disconnect is idempotent: invoked on a session that a disconnect   *)
(* has just left Disconnected, the disconnect operation (the button's      *)
(* handler, toggleConnection) leaves the session as it was: still          *)
(* Disconnected, no timer active, no connect attempt started.              *)
(***************************************************************************)
C12_DisconnectIdempotent ==
  [][(last.op = "disconnect" /\ toggleConnection) =>
       UNCHANGED <<connected, sensorData, logData, isLogging, loggingRef,
                   intervalId, timers, connectReqs, dataReqs>>]_vars

(***************************************************************************)
(* C19: for every message received with success, over HTTP and over BLE,   *)
(* the sample's dashboardTime is the dashboard's time at receipt and its   *)
(* esp32Time is the message's time field when it has one, and the capture  *)
(* time when it has none.                                                  *)
(***************************************************************************)
C19_SampleTimes ==
  (variant \in LogVariants /\ Received /\ last.pre.mounted) =>
    /\ sensorData["dashboardTime"] = toISOString(last.t2)
    /\ sensorData["esp32Time"] =
         IF "time" \in DOMAIN last.msg
           THEN last.msg["time"] ELSE sensorData["dashboardTime"]

(***************************************************************************)
(* C20: the connection state moves along Disconnected -> Connecting ->     *)
(* Connected -> Disconnected: a connect attempt starts only from           *)
(* Disconnected, never while another attempt is in progress or while the   *)
(* session is Connected.                                                   *)
(***************************************************************************)
C20_ConnectOnlyFromDisconnected ==
  last.op \in {"connect", "connectBluetooth"} =>
    (~last.pre.connected /\ last.pre.connectReqs = 0)

(***************************************************************************)
(* C21: the session is destroyed at explicit disconnect as it is at        *)
(* unmount: right after an explicit disconnect the transport is torn down  *)
(* (no timer active) and the log is discarded (logData is []).  The        *)
(* disconnect branch never calls setLogData.                               *)
(***************************************************************************)
C21_DisconnectDiscardsLog ==
  last.op = "disconnect" => (timers = {} /\ logData = <<>>)

\* C21, amended: right after an explicit disconnect the transport is torn
\* down (no timer active, connected false) and the log is the log the
\* disconnect found.
C21_DisconnectKeepsLog ==
  last.op = "disconnect" =>
    /\ timers = {}
    /\ ~connected
    /\ logData = last.pre.logData

\* A disconnect of a polling session that had logged a sample.
C21_Witness ==
  /\ last.op = "disconnect"
  /\ last.pre.timers # {}
  /\ Len(last.pre.logData) > 0
  /\ Len(logData) > 0

(***************************************************************************)
(* C22: the log is append-only: every step leaves the log unchanged,       *)
(* appends exactly one Sample (the one received) at its end, or empties it *)
(* (reset); the entries already in the log are never modified, reordered   *)
(* or removed one by one, and connect and disconnect leave the log         *)
(* unchanged.  A step is the handling of one event.                        *)
(***************************************************************************)
C22_LogAppendOnly ==
  variant \in LogVariants =>
    /\ \/ logData = last.pre.logData
       \/ /\ Received
          /\ logData = Append(last.pre.logData, ReceivedSample)
       \/ /\ last.op = "reset"
          /\ logData = <<>>
    /\ last.op \in {"connect", "connectResponse", "disconnect",
                    "connectBluetooth", "bluetoothResolved"} =>
         logData = last.pre.logData

\* C22 for the sessions with at most one notification listener.
C22_LogAppendOnly_OneListener ==
  last.pre.listeners <= 1 => C22_LogAppendOnly

(***************************************************************************)
(* C23: in the HTTP variants at most one polling timer is active at any    *)
(* time, for any sequence of connect attempts: whenever a new timer id is  *)
(* stored in intervalId, the timer stored before is cleared.  A /connect   *)
(* response that arrives after unmount still calls setInterval, and no     *)
(* cleanup runs for a component that is gone.                              *)
(***************************************************************************)
C23_AtMostOneTimer ==
  variant \in HttpVariants =>
    /\ Cardinality(timers) <= 1
    /\ intervalId # last.pre.intervalId => last.pre.intervalId \notin timers

\* C23 for the states in which the component is mounted.
C23_AtMostOneTimer_Mounted ==
  mounted => C23_AtMostOneTimer

(***************************************************************************)
(* C24: in every reachable state of the HTTP variants, a polling timer is  *)
(* active only if the connection state shown is Connected (connected is    *)
(* true; the component is mounted, so that it shows a state); a connect    *)
(* attempt that fails after an earlier one succeeded leaves no timer       *)
(* polling under "Not Connected".  Dashboard01's catch block calls         *)
(* setConnected(false) and leaves the timer alone.                         *)
(***************************************************************************)
C24_TimerImpliesConnected ==
  (variant \in HttpVariants /\ mounted /\ timers # {}) => connected

\* C24 for the variants whose failed connect leaves `connected` alone.
C24_TimerImpliesConnected_Toggle ==
  variant \in ToggleVariants => C24_TimerImpliesConnected

(***************************************************************************)
(* C25: in the BLE variant at most one notification listener is ever       *)
(* attached to the characteristic, also after connectBluetooth has run     *)
(* more than once, so that each valid notification received while          *)
(* loggingRef.current is true appends exactly one entry to the log.  Every *)
(* connectBluetooth that resolves adds a listener and none is removed.     *)
(***************************************************************************)
C25_OneEntryPerNotification ==
  variant = "DashBoard04" =>
    /\ listeners <= 1
    /\ (Received /\ last.pre.loggingRef /\ last.pre.mounted) =>
         Len(logData) = Len(last.pre.logData) + 1

(***************************************************************************)
(* C26: in the exported CSV every cell whose field the Sample has carries  *)
(* that field's value: a cell is empty only when the Sample lacks the      *)
(* field (or holds undefined for it), so that a numeric 0 (satellites 0)   *)
(* is written as 0.  row[header] || "" writes every falsy value as "".     *)
(***************************************************************************)
C26_ZeroWritten ==
  Downloaded =>
    \A i \in 1..Len(logData) :
      LET row == Cells(Lines(last.file)[i + 1])
      IN \A j \in 1..Len(headers) :
           field(logData[i], headers[j]) # Undefined =>
             row[j] = String(logData[i][headers[j]])
====
